---- MODULE Spec2Model ----
(***************************************************************************)
(* A model of mdnet's generate_site (src/mdnet/mdnet.py): one run of the   *)
(* static-site generator over a source directory, as a state machine.      *)
(*                                                                         *)
(* Strings (titles, tags, file stems) are TLA+ strings; a date string of   *)
(* the front-matter is the sequence of its characters, so that             *)
(* date.fromisoformat is modelled by what it parses.  A path under the     *)
(* output directory is the record [dir, name]; the suffix ".html" that the *)
(* code appends to every name is injective and is left implicit.  The      *)
(* file system is assumed writable: no write raises.                       *)
(***************************************************************************)
EXTENDS Integers, Sequences, FiniteSets, TLC

VARIABLES cfg, dir, pc, i, ti, posts, tags_dict, files, dirs, err

vars == <<cfg, dir, pc, i, ti, posts, tags_dict, files, dirs, err>>

\* the largest number of entries of the source directory
MaxDocs == 3

\* num_posts=8
DefaultNumPosts == 8

Min(a, b) == IF a < b THEN a ELSE b

Max(a, b) == IF a > b THEN a ELSE b

Reverse(s) == [k \in 1..Len(s) |-> s[Len(s) + 1 - k]]

(***************************************************************************)
(* Dates                                                                   *)
(***************************************************************************)
DigitChars == <<"0", "1", "2", "3", "4", "5", "6", "7", "8", "9">>

IsDigit(c) == \E k \in 1..10 : DigitChars[k] = c

DigitVal(c) == (CHOOSE k \in 1..10 : DigitChars[k] = c) - 1

MkDate(y, m, d) == [y |-> y, m |-> m, d |-> d]

IsLeap(y) == (y % 4 = 0) /\ ((y % 100 # 0) \/ (y % 400 = 0))

DaysInMonth(y, m) ==
    IF m = 2 THEN (IF IsLeap(y) THEN 29 ELSE 28)
    ELSE IF m \in {4, 6, 9, 11} THEN 30 ELSE 31

InvalidDate == [y |-> 0, m |-> 0, d |-> 0]

\* date.fromisoformat on a string given as its characters: YYYY-MM-DD with
\* a year of 1..9999, a month of 1..12 and a day of that month; anything
\* else raises ValueError (InvalidDate here).
FromIsoFormat(s) ==
    IF /\ Len(s) = 10
       /\ s[5] = "-"
       /\ s[8] = "-"
       /\ \A k \in {1, 2, 3, 4, 6, 7, 9, 10} : IsDigit(s[k])
    THEN LET y == 1000 * DigitVal(s[1]) + 100 * DigitVal(s[2])
                  + 10 * DigitVal(s[3]) + DigitVal(s[4])
             m == 10 * DigitVal(s[6]) + DigitVal(s[7])
             d == 10 * DigitVal(s[9]) + DigitVal(s[10])
         IN  IF y >= 1 /\ m \in 1..12 /\ d >= 1 /\ d <= DaysInMonth(y, m)
             THEN MkDate(y, m, d)
             ELSE InvalidDate
    ELSE InvalidDate

\* date.__lt__: calendar order
DateLT(a, b) ==
    \/ a.y < b.y
    \/ a.y = b.y /\ a.m < b.m
    \/ a.y = b.y /\ a.m = b.m /\ a.d < b.d

SentinelDate == MkDate(1900, 1, 1)


(***************************************************************************)
(* Inputs: the source directory and the configuration                      *)
(***************************************************************************)
\* A front-matter value is absent, a string, or (for a date) a native date;
\* "other" is any value of another shape (null, a number, ...).
Absent == [kind |-> "absent", val |-> ""]

NotAString == [kind |-> "other", val |-> ""]

Str(s) == [kind |-> "str", val |-> s]

NoDate == [kind |-> "absent", str |-> <<>>, date |-> InvalidDate]

OtherDate == [kind |-> "other", str |-> <<>>, date |-> InvalidDate]

DateStr(s) == [kind |-> "str", str |-> s, date |-> InvalidDate]

NativeDate(d) == [kind |-> "date", str |-> <<>>, date |-> d]

Iso20240601 == <<"2", "0", "2", "4", "-", "0", "6", "-", "0", "1">>

Iso20240101 == <<"2", "0", "2", "4", "-", "0", "1", "-", "0", "1">>

Iso19000101 == <<"1", "9", "0", "0", "-", "0", "1", "-", "0", "1">>

Iso18991231 == <<"1", "8", "9", "9", "-", "1", "2", "-", "3", "1">>

Iso20230230 == <<"2", "0", "2", "3", "-", "0", "2", "-", "3", "0">>

NotIso == <<"J", "u", "n", "e">>

\* File stems of the directory entries, in iteration order: names in one
\* directory are distinct.
StemNames == <<"f1", "f2", "f3", "f4", "f5">>

Stem(k) == StemNames[k]

Entry(md, title, date, tags) ==
    [md |-> md, title |-> title, date |-> date, tags |-> tags]

\* every listing of at most MaxDocs entries drawn from S
Listings(S) == UNION {[1..n -> S] : n \in 0..MaxDocs}

Config(post, index, tag, alltags, allposts, n) ==
    [post_template_path |-> post, index_template_path |-> index,
     tag_template_path |-> tag, all_tags_template_path |-> alltags,
     all_posts_template_path |-> allposts, num_posts |-> n]

\* A template path: None ("none"), a path to a template that loads ("ok"),
\* or a path that does not resolve ("missing").
Required == {"ok", "missing"}

Optional == {"none", "ok", "missing"}

NumPostsSet == {-2, -1, 0, 1, 2, DefaultNumPosts}

AllRawDates ==
    {NoDate, OtherDate, DateStr(Iso20240601), DateStr(Iso20240101),
     DateStr(Iso19000101), DateStr(Iso18991231), DateStr(Iso20230230),
     NativeDate(MkDate(2024, 6, 1))}

AllTagLists ==
    {<<>>, <<"x">>, <<"y">>, <<"x", "y">>, <<"x", "x">>}

AllTitles == {Absent, NotAString, Str(""), Str("T"), Str("f1")}

\* The input families.  Each varies some of the inputs over all their
\* values and keeps the others at one value.
DateInputs ==
    /\ dir \in Listings({Entry(TRUE, Absent, d, <<>>) : d \in AllRawDates})
    /\ cfg = Config("ok", "ok", "ok", "ok", "ok", DefaultNumPosts)

SliceInputs ==
    /\ dir \in Listings({Entry(md, Absent, d, <<>>) :
                 md \in BOOLEAN,
                 d \in {NoDate, DateStr(Iso20240601), DateStr(Iso20240101)}})
    /\ cfg \in {Config("ok", "ok", "ok", "ok", "ok", n) : n \in NumPostsSet}

TagInputs ==
    /\ dir \in Listings({Entry(TRUE, Absent, d, t) :
                 d \in {NoDate, DateStr(Iso20240601)}, t \in AllTagLists})
    /\ cfg = Config("ok", "ok", "ok", "ok", "ok", DefaultNumPosts)

TitleInputs ==
    /\ dir \in Listings({Entry(TRUE, t, d, <<"x">>) :
                 t \in AllTitles, d \in {NoDate, DateStr(NotIso)}})
    /\ cfg = Config("ok", "ok", "ok", "ok", "ok", DefaultNumPosts)

ConfigInputs ==
    /\ dir \in Listings({Entry(TRUE, Absent, NoDate, t) :
                 t \in {<<>>, <<"x">>, <<"x", "y">>}})
    /\ cfg \in {Config(p, x, t, a, l, DefaultNumPosts) :
                 p \in Required, x \in Required, t \in Optional,
                 a \in Optional, l \in Optional}

(***************************************************************************)
(* Metadata of one directory entry (the entry at position k of dir)        *)
(***************************************************************************)
\* a variant of Title: an empty title falls back to the stem as well
TitleOrStemIfEmpty(f, k) ==
    IF f.title.kind = "absent" \/ f.title = Str("") THEN Str(Stem(k))
    ELSE f.title

\* post.metadata.get('title', md_file.stem)
Title(f, k) == IF f.title.kind = "absent" THEN Str(Stem(k)) ELSE f.title

\* the isinstance chain over post.metadata.get('date', None)
DateObj(f) ==
    IF f.date.kind = "str" THEN FromIsoFormat(f.date.str)
    ELSE IF f.date.kind = "date" THEN f.date.date
    ELSE SentinelDate

\* The exception that processing the entry raises before anything is
\* written for it, "none" if it raises none: the statements run in the
\* order date parse, title + ".html", render of the post template.
CollectError(f, k) ==
    IF f.date.kind = "str" /\ FromIsoFormat(f.date.str) = InvalidDate
    THEN "ValueError"
    ELSE IF Title(f, k).kind # "str" THEN "TypeError"
    ELSE IF cfg.post_template_path = "missing" THEN "TemplateNotFound"
    ELSE "none"

PostPath(title) == [dir |-> "posts", name |-> title]

TagPath(tag) == [dir |-> "tags", name |-> tag]

TopPath(name) == [dir |-> "", name |-> name]

\* render_template(post_template_path, title=..., date=date, content=...):
\* the page is a function of the title and the document's body, which is
\* identified with its file.
PostPage(f, k) == [tpl |-> "post", title |-> Title(f, k).val, body |-> Stem(k)]

\* post_data; src is the identity of the dict object (the entry it was
\* built from), which the code does not store.
PostData(f, k) ==
    [title |-> Title(f, k).val, date |-> DateObj(f), tldr |-> "",
     file |-> PostPath(Title(f, k).val),
     tag_file |-> [dir |-> "../posts", name |-> Title(f, k).val],
     src |-> k]

\* a variant of WriteText: an existing file is left as it is
WriteIfAbsent(fs, p, c) ==
    [q \in (DOMAIN fs) \cup {p} |-> IF q \in DOMAIN fs THEN fs[q] ELSE c]

\* Path.write_text: creates the file or replaces its content
WriteText(fs, p, c) == [q \in (DOMAIN fs) \cup {p} |-> IF q = p THEN c ELSE fs[q]]

\* a variant of FilesAfterCollect: the output file is opened for writing as
\* soon as its name is known, before the page is rendered
FilesOpenedFirst(fs, f, k, e) ==
    IF e = "none" THEN WriteText(fs, PostPath(Title(f, k).val), PostPage(f, k))
    ELSE IF e = "TypeError" THEN fs
    ELSE WriteText(fs, PostPath(Title(f, k).val),
                   [tpl |-> "post", title |-> Title(f, k).val, body |-> ""])

\* the output files once the entry has been processed with outcome e
FilesAfterCollect(fs, f, k, e) ==
    IF e = "none" THEN WriteText(fs, PostPath(Title(f, k).val), PostPage(f, k))
    ELSE fs

\* a variant of AddTag: the append sits in an else branch, so the post that
\* creates a bucket is not put into it
AddTagElse(td, tag, p) ==
    IF tag \in DOMAIN td.val
    THEN [keys |-> td.keys,
          val |-> [td.val EXCEPT ![tag] = Append(@, p)]]
    ELSE [keys |-> Append(td.keys, tag),
          val |-> [t \in (DOMAIN td.val) \cup {tag} |->
                     IF t = tag THEN <<>> ELSE td.val[t]]]

\* tags_dict after one iteration of the loop over post_tags
AddTag(td, tag, p) ==
    IF tag \in DOMAIN td.val
    THEN [keys |-> td.keys,
          val |-> [td.val EXCEPT ![tag] = Append(@, p)]]
    ELSE [keys |-> Append(td.keys, tag),
          val |-> [t \in (DOMAIN td.val) \cup {tag} |->
                     IF t = tag THEN <<p>> ELSE td.val[t]]]

RECURSIVE AddTags(_, _, _)
AddTags(td, tags, p) ==
    IF tags = <<>> THEN td
    ELSE AddTags(AddTag(td, Head(tags), p), Tail(tags), p)

(***************************************************************************)
(* list.sort(key=..., reverse=True)                                        *)
(***************************************************************************)
\* where binary insertion puts x in the sorted run s: after every element
\* that is not greater than x
InsertPos(s, x) ==
    CHOOSE p \in 1..(Len(s) + 1) :
        /\ \A q \in 1..(p - 1) : ~DateLT(x.date, s[q].date)
        /\ p = Len(s) + 1 \/ DateLT(x.date, s[p].date)

Insert(s, x) ==
    LET p == InsertPos(s, x)
    IN  SubSeq(s, 1, p - 1) \o <<x>> \o SubSeq(s, p, Len(s))

RECURSIVE SortAscFrom(_, _)
SortAscFrom(done, rest) ==
    IF rest = <<>> THEN done
    ELSE SortAscFrom(Insert(done, Head(rest)), Tail(rest))

\* the stable ascending sort by key
SortAsc(s) == SortAscFrom(<<>>, s)

\* a variant of SortDesc: an ascending sort reversed once
SortAscReversed(s) == Reverse(SortAsc(s))

\* reverse=True: the list is reversed, sorted ascending, and reversed again
SortDesc(s) == Reverse(SortAsc(Reverse(s)))

\* a variant of SliceTo: a negative n is not counted from the end
SliceClamped(s, n) == SubSeq(s, 1, Min(Max(n, 0), Len(s)))

\* posts[:n]
SliceTo(s, n) ==
    LET stop == IF n < 0 THEN Max(Len(s) + n, 0) ELSE Min(n, Len(s))
    IN  SubSeq(s, 1, stop)

(***************************************************************************)
(* The run of generate_site                                                *)
(***************************************************************************)
NoError == [at |-> "none", kind |-> "none"]

NoFiles == [q \in {} |-> 0]

EmptyTags == [keys |-> <<>>, val |-> [t \in {} |-> <<>>]]

Init ==
    /\ \/ DateInputs
       \/ SliceInputs
       \/ TagInputs
       \/ TitleInputs
       \/ ConfigInputs
    /\ pc = "start"
    /\ i = 1
    /\ ti = 1
    /\ posts = <<>>
    /\ tags_dict = EmptyTags
    /\ files = NoFiles
    /\ dirs = {}
    /\ err = NoError

\* An exception leaves generate_site: nothing catches it and nothing is
\* undone.
Raise(at, kind) ==
    /\ pc' = "failed"
    /\ err' = [at |-> at, kind |-> kind]

\* render_template(path, ...): None has no .parent (AttributeError), a path
\* that does not resolve raises TemplateNotFound
RenderError(path) ==
    IF path = "none" THEN "AttributeError"
    ELSE IF path = "missing" THEN "TemplateNotFound"
    ELSE "none"

\* posts_dir.mkdir(parents=True, exist_ok=True); posts = []; tags_dict = {}
Setup ==
    /\ pc = "start"
    /\ dirs' = dirs \cup {"posts"}
    /\ pc' = "collect"
    /\ UNCHANGED <<cfg, dir, i, ti, posts, tags_dict, files, err>>

\* one iteration of the loop over the directory
Collect ==
    /\ pc = "collect"
    /\ i <= Len(dir)
    /\ LET f == dir[i]
           e == CollectError(f, i)
       IN  IF ~f.md
           THEN /\ i' = i + 1
                /\ UNCHANGED <<pc, posts, tags_dict, files, err>>
           ELSE /\ files' = FilesAfterCollect(files, f, i, e)
                /\ IF e # "none"
                   THEN /\ Raise("collect", e)
                        /\ UNCHANGED <<i, posts, tags_dict>>
                   ELSE /\ posts' = Append(posts, PostData(f, i))
                        /\ tags_dict' = AddTags(tags_dict, f.tags, PostData(f, i))
                        /\ i' = i + 1
                        /\ UNCHANGED <<pc, err>>
    /\ UNCHANGED <<cfg, dir, ti, dirs>>

\* posts.sort(key=lambda post: post['date'], reverse=True)
Sort ==
    /\ pc = "collect"
    /\ i > Len(dir)
    /\ posts' = SortDesc(posts)
    /\ pc' = "gate"
    /\ UNCHANGED <<cfg, dir, i, ti, tags_dict, files, dirs, err>>

\* a variant of TagGate: the block is entered when either template is set
TagGateEither ==
    /\ pc = "gate"
    /\ IF cfg.tag_template_path # "none" \/ cfg.all_tags_template_path # "none"
       THEN /\ dirs' = dirs \cup {"tags"}
            /\ pc' = "tags"
       ELSE /\ pc' = "index"
            /\ UNCHANGED dirs
    /\ UNCHANGED <<cfg, dir, i, ti, posts, tags_dict, files, err>>

\* if tag_template_path: tags_dir.mkdir(...)
TagGate ==
    /\ pc = "gate"
    /\ IF cfg.tag_template_path # "none"
       THEN /\ dirs' = dirs \cup {"tags"}
            /\ pc' = "tags"
       ELSE /\ pc' = "index"
            /\ UNCHANGED dirs
    /\ UNCHANGED <<cfg, dir, i, ti, posts, tags_dict, files, err>>

\* one iteration of the loop over tags_dict.items()
TagPage ==
    /\ pc = "tags"
    /\ ti <= Len(tags_dict.keys)
    /\ LET tag == tags_dict.keys[ti]
           e == RenderError(cfg.tag_template_path)
       IN  IF e # "none"
           THEN /\ Raise("tags", e)
                /\ UNCHANGED <<ti, files>>
           ELSE /\ files' = WriteText(files, TagPath(tag),
                                [tpl |-> "tag", tag |-> tag,
                                 posts |-> tags_dict.val[tag]])
                /\ ti' = ti + 1
                /\ UNCHANGED <<pc, err>>
    /\ UNCHANGED <<cfg, dir, i, posts, tags_dict, dirs>>

\* render_template(all_tags_template_path, ...); write all_tags.html
AllTags ==
    /\ pc = "tags"
    /\ ti > Len(tags_dict.keys)
    /\ LET e == RenderError(cfg.all_tags_template_path)
       IN  IF e # "none"
           THEN /\ Raise("all_tags", e)
                /\ UNCHANGED files
           ELSE /\ files' = WriteText(files, TopPath("all_tags"),
                                [tpl |-> "all_tags", tags_dict |-> tags_dict])
                /\ pc' = "index"
                /\ UNCHANGED err
    /\ UNCHANGED <<cfg, dir, i, ti, posts, tags_dict, dirs>>

\* render_template(index_template_path, posts=posts[:num_posts], ...)
Index ==
    /\ pc = "index"
    /\ LET e == RenderError(cfg.index_template_path)
       IN  IF e # "none"
           THEN /\ Raise("index", e)
                /\ UNCHANGED files
           ELSE /\ files' = WriteText(files, TopPath("index"),
                                [tpl |-> "index",
                                 posts |-> SliceTo(posts, cfg.num_posts),
                                 tags_dict |-> tags_dict])
                /\ pc' = "all_posts"
                /\ UNCHANGED err
    /\ UNCHANGED <<cfg, dir, i, ti, posts, tags_dict, dirs>>

\* a variant of AllPosts: the step is skipped when no template is set
AllPostsGuarded ==
    /\ pc = "all_posts"
    /\ LET e == RenderError(cfg.all_posts_template_path)
       IN  IF e = "AttributeError"
           THEN /\ pc' = "done"
                /\ UNCHANGED <<files, err>>
           ELSE IF e # "none"
           THEN /\ Raise("all_posts", e)
                /\ UNCHANGED files
           ELSE /\ files' = WriteText(files, TopPath("all_posts"),
                                [tpl |-> "all_posts", posts |-> posts])
                /\ pc' = "done"
                /\ UNCHANGED err
    /\ UNCHANGED <<cfg, dir, i, ti, posts, tags_dict, dirs>>

\* render_template(all_posts_template_path, posts=posts); all_posts.html
AllPosts ==
    /\ pc = "all_posts"
    /\ LET e == RenderError(cfg.all_posts_template_path)
       IN  IF e # "none"
           THEN /\ Raise("all_posts", e)
                /\ UNCHANGED files
           ELSE /\ files' = WriteText(files, TopPath("all_posts"),
                                [tpl |-> "all_posts", posts |-> posts])
                /\ pc' = "done"
                /\ UNCHANGED err
    /\ UNCHANGED <<cfg, dir, i, ti, posts, tags_dict, dirs>>

Next ==
    \/ Setup
    \/ Collect
    \/ Sort
    \/ TagGate
    \/ TagPage
    \/ AllTags
    \/ Index
    \/ AllPosts

Spec == Init /\ [][Next]_vars

TypeOK ==
    /\ pc \in {"start", "collect", "gate", "tags", "index", "all_posts",
               "done", "failed"}
    /\ i \in 1..(Len(dir) + 1)
    /\ (pc = "failed") = (err # NoError)

(***************************************************************************)
(* Properties                                                              *)
(***************************************************************************)
Range(s) == {s[k] : k \in 1..Len(s)}

\* the loop over the directory has ended without an exception
Collected ==
    \/ pc = "collect" /\ i > Len(dir)
    \/ pc \in {"gate", "tags", "index", "all_posts", "done"}
    \/ pc = "failed" /\ err.at # "collect"

\* the sort step has run
Sorted ==
    \/ pc \in {"gate", "tags", "index", "all_posts", "done"}
    \/ pc = "failed" /\ err.at # "collect"

\* the Markdown entries among the first n of the directory
MdEntries(n) == {j \in 1..n : dir[j].md}

Written(p) == p \in DOMAIN files

\* s is in non-increasing date order, posts of one date in discovery order
StableDesc(s) ==
    \A a, b \in 1..Len(s) :
        a < b => /\ ~DateLT(s[a].date, s[b].date)
                 /\ s[a].date = s[b].date => s[a].src < s[b].src

\* C1: after the sort step the post list is in non-increasing date order,
\* and posts of equal date keep their discovery order, in the list and in
\* the lists bound into the index and the all-posts pages.
C1_SortStable ==
    Sorted =>
        /\ StableDesc(posts)
        /\ Written(TopPath("index")) => StableDesc(files[TopPath("index")].posts)
        /\ Written(TopPath("all_posts")) =>
               files[TopPath("all_posts")].posts = posts

C1_Witness ==
    /\ pc = "done"
    /\ Len(posts) >= 3
    /\ posts[1].src # 1
    /\ \E a, b \in 1..Len(posts) : a < b /\ posts[a].date = posts[b].date
    /\ \E a, b \in 1..Len(posts) : posts[a].date # posts[b].date
    /\ Len(files[TopPath("index")].posts) = Len(posts)

\* C2 as stated: for every integer num_posts the index page binds exactly
\* min(num_posts, total posts) posts, the first ones of the sorted list.
C2_IndexCountIsMin ==
    Written(TopPath("index")) =>
        LET bound == files[TopPath("index")].posts
        IN  /\ Len(bound) = Min(cfg.num_posts, Len(posts))
            /\ bound = SubSeq(posts, 1, Len(bound))

\* C2 amended: the index page binds the first min(num_posts, total) posts
\* of the sorted list when num_posts >= 0, and the first
\* max(total + num_posts, 0) of them when num_posts is negative.
C2_IndexCount ==
    Written(TopPath("index")) =>
        LET bound == files[TopPath("index")].posts
            total == Len(posts)
        IN  /\ cfg.num_posts >= 0 => Len(bound) = Min(cfg.num_posts, total)
            /\ cfg.num_posts < 0 => Len(bound) = Max(total + cfg.num_posts, 0)
            /\ bound = SubSeq(posts, 1, Len(bound))
            /\ StableDesc(posts)

C2_Witness ==
    /\ Written(TopPath("index"))
    /\ cfg.num_posts > 0
    /\ cfg.num_posts < Len(posts)
    /\ posts[1].src # 1

\* the tags that the processed documents list
TagsReferenced == UNION {Range(dir[j].tags) : j \in MdEntries(Len(dir))}

Occurrences(tag, tags) == Cardinality({k \in 1..Len(tags) : tags[k] = tag})

\* the documents among the first n that list the tag, in discovery order,
\* each one once
RECURSIVE TaggedOnce(_, _)
TaggedOnce(tag, n) ==
    IF n = 0 THEN <<>>
    ELSE TaggedOnce(tag, n - 1) \o
         (IF dir[n].md /\ tag \in Range(dir[n].tags) THEN <<n>> ELSE <<>>)

\* the same, each document as many times as it lists the tag
RECURSIVE TaggedPerOccurrence(_, _)
TaggedPerOccurrence(tag, n) ==
    IF n = 0 THEN <<>>
    ELSE TaggedPerOccurrence(tag, n - 1) \o
         (IF dir[n].md
          THEN [k \in 1..Occurrences(tag, dir[n].tags) |-> n]
          ELSE <<>>)

BucketSources(tag) ==
    [k \in 1..Len(tags_dict.val[tag]) |-> tags_dict.val[tag][k].src]

BucketsHoldPosts ==
    \A tag \in DOMAIN tags_dict.val :
        \A k \in 1..Len(tags_dict.val[tag]) :
            tags_dict.val[tag][k] \in Range(posts)

\* C3 as stated: after collection the keys of the tag index are the tags
\* that the posts reference, and the bucket of a tag holds exactly the posts
\* that list the tag, each once, in discovery order, also when a document
\* lists a tag more than once.
C3_BucketsEachPostOnce ==
    Collected =>
        /\ DOMAIN tags_dict.val = TagsReferenced
        /\ Range(tags_dict.keys) = TagsReferenced
        /\ BucketsHoldPosts
        /\ \A tag \in TagsReferenced :
               BucketSources(tag) = TaggedOnce(tag, Len(dir))

\* C3 amended: the bucket of a tag holds the posts that list the tag and no
\* other post, in discovery order, each post once for every time its tag
\* list names the tag (so exactly once when it names the tag once).
C3_BucketsPerOccurrence ==
    Collected =>
        /\ DOMAIN tags_dict.val = TagsReferenced
        /\ Range(tags_dict.keys) = TagsReferenced
        /\ BucketsHoldPosts
        /\ \A tag \in TagsReferenced :
               BucketSources(tag) = TaggedPerOccurrence(tag, Len(dir))

C3_Witness ==
    /\ pc = "done"
    /\ Len(posts) >= 2
    /\ posts[1].src # 1
    /\ \E tag \in TagsReferenced :
           /\ Len(tags_dict.val[tag]) >= 3
           /\ Cardinality(Range(BucketSources(tag))) = 2
    /\ Cardinality(TagsReferenced) = 2

Undated(p) == dir[p.src].date.kind = "absent"

Dated(p) == dir[p.src].date.kind \in {"str", "date"}

\* C4: a post without a date field gets the date 1900-01-01, and in the
\* sorted list every such post comes after every post that has a date,
\* whatever valid dates the dated posts carry.
C4_UndatedSortLast ==
    Sorted =>
        /\ \A a \in 1..Len(posts) : Undated(posts[a]) => posts[a].date = SentinelDate
        /\ \A a, b \in 1..Len(posts) :
               Undated(posts[a]) /\ Dated(posts[b]) => b < a

\* C5: with no tag template, no state of the run has a file under tags/ or
\* the file all_tags.html, whatever all_tags_template_path is.
C5_NoTagOutput ==
    cfg.tag_template_path = "none" =>
        /\ "tags" \notin dirs
        /\ \A q \in DOMAIN files : q.dir # "tags" /\ q # TopPath("all_tags")
        /\ pc # "tags"

C5_Witness ==
    /\ cfg.tag_template_path = "none"
    /\ cfg.all_tags_template_path = "ok"
    /\ pc = "done"
    /\ Cardinality(DOMAIN tags_dict.val) = 2

\* C6: with a tag template that loads and a successful collection, the run
\* writes the page of every tag, then all_tags.html, and goes on to the
\* index page, whether or not all_tags_template_path is set.
C6_AllTagsNeedsOnlyTagTemplate ==
    (cfg.tag_template_path = "ok" /\ cfg.all_tags_template_path # "missing") =>
        /\ ~(pc = "failed" /\ err.at \in {"tags", "all_tags"})
        /\ (Sorted /\ pc \notin {"gate", "tags"}) =>
               /\ \A tag \in DOMAIN tags_dict.val : Written(TagPath(tag))
               /\ Written(TopPath("all_tags"))

TagPagesWritten ==
    /\ \A tag \in DOMAIN tags_dict.val : Written(TagPath(tag))
    /\ Written(TopPath("all_tags"))

LastPageOf(title, n) ==
    LET same == {j \in MdEntries(n) : Title(dir[j], j).val = title}
        last == CHOOSE j \in same : \A h \in same : h <= j
    IN  PostPage(dir[last], last)

C9_TitleNonEmptyOrStem ==
    \A k \in 1..Len(posts) :
        LET p == posts[k]
            f == dir[p.src]
        IN  /\ p.title = IF f.title.kind = "str" /\ f.title.val # ""
                         THEN f.title.val ELSE Stem(p.src)
            /\ p.file = PostPath(p.title)
            /\ Written(p.file)

\* C9 amended: the title of a post is the front-matter title whenever the
\* title field is present, also when it is the empty string, and the file
\* stem only when the field is absent; the post's file is
\* posts/<title>.html.
C9_TitlePresentOrStem ==
    \A k \in 1..Len(posts) :
        LET p == posts[k]
            f == dir[p.src]
        IN  /\ f.title.kind \in {"str", "absent"}
            /\ f.title.kind = "str" => p.title = f.title.val
            /\ f.title.kind = "absent" => p.title = Stem(p.src)
            /\ p.file = PostPath(p.title)
            /\ Written(p.file)
            /\ files[p.file].title = p.title

C9_Witness ==
    /\ pc = "done"
    /\ \E k \in 1..Len(posts) :
           dir[posts[k].src].title = Str("") /\ posts[k].title = ""
    /\ \E k \in 1..Len(posts) :
           dir[posts[k].src].title = Absent /\ posts[k].title = Stem(posts[k].src)
    /\ \E k \in 1..Len(posts) : posts[k].title = "T"
    /\ Written(PostPath(""))

PostFiles == {q \in DOMAIN files : q.dir = "posts"}

\* C10: when documents share a title the run still collects all of them:
\* there is one post record per document, each in the buckets of its tags,
\* one post file per distinct title, and the file of a title holds the page
\* of the last discovered document with that title.
C10_CollisionOverwrites ==
    Collected =>
        LET all == MdEntries(Len(dir))
        IN  /\ Len(posts) = Cardinality(all)
            /\ {posts[k].src : k \in 1..Len(posts)} = all
            /\ PostFiles = {PostPath(Title(dir[j], j).val) : j \in all}
            /\ Cardinality(PostFiles) =
                   Cardinality({Title(dir[j], j).val : j \in all})
            /\ \A q \in PostFiles : files[q] = LastPageOf(q.name, Len(dir))
            /\ \A j \in all : \A tag \in Range(dir[j].tags) :
                   \E k \in 1..Len(tags_dict.val[tag]) :
                       /\ tags_dict.val[tag][k].src = j
                       /\ tags_dict.val[tag][k].title = Title(dir[j], j).val

C10_Witness ==
    /\ pc = "done"
    /\ Len(posts) = 3
    /\ Cardinality(PostFiles) = 2
    /\ \E a, b \in 1..3 :
           /\ a < b
           /\ Title(dir[a], a) = Title(dir[b], b)
           /\ files[PostPath(Title(dir[a], a).val)].body = Stem(b)
    /\ "x" \in DOMAIN tags_dict.val
    /\ Len(tags_dict.val["x"]) = 3

====
